---- MODULE Spec2Model ----
(***************************************************************************)
(* The books service of src/api/main.ts: an in-memory Map of Book records  *)
(* seeded from a JSON file at startup and served through five oak routes   *)
(* (GET /books, GET /books/:id, POST /books, PUT /books/:id,               *)
(* DELETE /books/:id) behind the error-handler middleware.                 *)
(*                                                                         *)
(* JavaScript values are modelled as follows.                              *)
(*   - an object is a function from the names of its own properties to     *)
(*     their values; an absent property is a name outside the DOMAIN;      *)
(*   - the Map `books` is the sequence of its entries [k, v] in insertion  *)
(*     order, which is the order Map.prototype.values() yields;            *)
(*   - a request body is [kind |-> "none"] (no body), [kind |-> "null"]    *)
(*     (the JSON text null), [kind |-> "scalar"] (a JSON number or string) *)
(*     or [kind |-> "object", json |-> o];                                 *)
(*   - a path parameter is a string; "" stands for an absent parameter.    *)
(***************************************************************************)
EXTENDS Integers, Sequences, FiniteSets, TLC

VARIABLES
    phase,      \* "loading" until loadBooksData() has returned (line 67), then "listening"
    file,       \* what ../data/simple_book.json holds when it is read (line 55)
    books,      \* const books = new Map<string, Book>() (line 37)
    generated,  \* how many ids uuid.generate() has produced (line 106)
    revealed,   \* the generated ids a response has shown to a client (line 111)
    req,        \* the body of the request handled last
    resp,       \* the response to the request handled last: op, id, status, body
    prev,       \* op, id and status of the response before `resp`
    pre,        \* `books` as it was when the request handled last arrived
    nOps,       \* requests handled since the server started to listen
    nLoaded,    \* entries in `books` when the server started to listen
    nCreated,   \* Creates answered 201
    nDeleted,   \* Deletes answered 204
    createdIds, \* the id fields of the Books returned by Creates answered 201
    dupCreate,  \* TRUE once two Creates answered 201 returned the same id field
    pinned      \* per supplied id X: the Books created under X since the last
                \* Update or Delete request on X

vars == <<phase, file, books, generated, revealed, req, resp, prev, pre, nOps,
          nLoaded, nCreated, nDeleted, createdIds, dupCreate, pinned>>

\* The number of requests a behaviour handles after startup.
MaxOps == 3

----------------------------------------------------------------------------
(* Values *)

RequiredFields == {"title", "author", "genre", "year", "summary"}

\* Ids a client makes up, and the ids the data file uses.
ClientIds == {"1", "2"}

\* The n-th id uuid.generate() returns: random, so unequal to every id made up
\* by a client and to every id generated before.
Uuid(n) == "uuid-" \o ToString(n)

\* JavaScript truthiness of property f of object o (absent, "" and 0 are falsy).
Truthy(o, f) ==
    /\ f \in DOMAIN o
    /\ IF f = "year" THEN o[f] # 0 ELSE o[f] # ""

NoBody == [kind |-> "none"]
NullBody == [kind |-> "null"]
ScalarBody == [kind |-> "scalar"]
ObjectBody(o) == [kind |-> "object", json |-> o]

\* A complete Book payload without an id property.
BasePayload(t) ==
    [title |-> t, author |-> "B", genre |-> "C", year |-> 2000, summary |-> "S"]

\* o with property f set to v ({...o, f: v}).
With(o, f, v) == [g \in DOMAIN o \cup {f} |-> IF g = f THEN v ELSE o[g]]

\* o without property f.
Without(o, f) == [g \in DOMAIN o \ {f} |-> o[g]]

\* The Book the data file holds under id i.
FileBook(i) == With(BasePayload("A"), "id", i)

JsonNull == [null |-> TRUE]

\* What the data file can hold: nothing readable, text that is not JSON, or a
\* JSON array of Books, possibly with a null among them.
FileContents ==
    { [kind |-> "unreadable"], [kind |-> "malformed"],
      [kind |-> "array", entries |-> <<>>],
      [kind |-> "array", entries |-> <<FileBook("1")>>],
      [kind |-> "array", entries |-> <<FileBook("2"), FileBook("1")>>],
      [kind |-> "array", entries |-> <<FileBook("1"), JsonNull, FileBook("2")>>] }

----------------------------------------------------------------------------
(* The Map *)

MapHas(bs, k) == \E i \in 1..Len(bs) : bs[i].k = k

MapGet(bs, k) == bs[CHOOSE i \in 1..Len(bs) : bs[i].k = k].v

MapSet(bs, k, v) ==
    IF MapHas(bs, k)
    THEN [i \in 1..Len(bs) |-> IF bs[i].k = k THEN [k |-> k, v |-> v] ELSE bs[i]]
    ELSE Append(bs, [k |-> k, v |-> v])

MapDeleteNothing(bs, k) == bs

MapClear(bs, k) == <<>>

MapDelete(bs, k) == SelectSeq(bs, LAMBDA e : e.k # k)

MapValues(bs) == [i \in 1..Len(bs) |-> bs[i].v]

----------------------------------------------------------------------------
(* Startup: loadBooksData, lines 53-67 *)

\* jsonData.forEach(book => books.set(book.id, book)) keyed by the wrong property.
RECURSIVE LoadEntriesByTitle(_, _)
LoadEntriesByTitle(bs, jsonData) ==
    IF jsonData = <<>> THEN bs
    ELSE IF Head(jsonData) = JsonNull THEN bs
    ELSE LoadEntriesByTitle(MapSet(bs, Head(jsonData).title, Head(jsonData)),
                            Tail(jsonData))

\* jsonData.forEach(book => books.set(book.id, book)): reading .id of a null
\* entry throws a TypeError, which ends the loop with the earlier entries stored.
RECURSIVE LoadEntries(_, _)
LoadEntries(bs, jsonData) ==
    IF jsonData = <<>> THEN bs
    ELSE IF Head(jsonData) = JsonNull THEN bs
    ELSE LoadEntries(MapSet(bs, Head(jsonData).id, Head(jsonData)), Tail(jsonData))

\* The try block of loadBooksData: readTextFile or JSON.parse throwing leaves
\* `books` untouched; the catch block only logs.
LoadedBooks(bs, f) ==
    IF f.kind = "array" THEN LoadEntries(bs, f.entries) ELSE bs

----------------------------------------------------------------------------
(* Responses *)

EmptyBody == [kind |-> "empty"]
BookBody(b) == [kind |-> "book", book |-> b]
ListBody(l) == [kind |-> "list", list |-> l]
JsonBody(o) == [kind |-> "json", json |-> o]
HtmlBody == [kind |-> "html"]
ErrorBody(m) == [kind |-> "error", message |-> m]

Reply(bs, status, body) == [books |-> bs, status |-> status, body |-> body]

\* context.throw(status, message) under the error handler (lines 177-190): an
\* HTTP error becomes a response with the error's status and message.
ThrowHttp(bs, status, message) == Reply(bs, status, ErrorBody(message))

\* Any other exception is logged and thrown again (lines 191-194); oak answers
\* such a request with 500 Internal Server Error.
ThrowOther(bs) == Reply(bs, 500, ErrorBody("Internal Server Error"))

\* notFound, lines 70-74.
notFound(bs) == Reply(bs, 404, HtmlBody)

----------------------------------------------------------------------------
(* GET /books, lines 79-81; a response with a body and no status set is 200 *)

GetBooksResult(bs) == Reply(bs, 200, ListBody(MapValues(bs)))

(* GET /books/:id, lines 83-92 *)

GetBookAlwaysFound(bs, bookId) ==
    IF bs = <<>> THEN notFound(bs) ELSE Reply(bs, 200, BookBody(bs[1].v))

GetBookResult(bs, bookId) ==
    IF MapHas(bs, bookId)
    THEN Reply(bs, 200, BookBody(MapGet(bs, bookId)))
    ELSE notFound(bs)

----------------------------------------------------------------------------
(* POST /books, lines 94-112 *)

\* The object whose properties line 102 reads: a JSON number or string has none
\* of them.
ParsedObject(body) ==
    IF body.kind = "object" THEN body.json ELSE [g \in {} |-> ""]

MissingRequiredButSummary(newBook) ==
    \E f \in RequiredFields \ {"summary"} : ~Truthy(newBook, f)

\* !newBook.title || !newBook.author || !newBook.genre || !newBook.year ||
\* !newBook.summary, line 102.
MissingRequired(newBook) ==
    \E f \in RequiredFields : ~Truthy(newBook, f)

CreateKeyAlwaysFresh(newBook, fresh) == fresh

\* (!newBook.id) ? uuid.generate() : newBook.id, line 106.
CreateKey(newBook, fresh) ==
    IF ~Truthy(newBook, "id") THEN fresh ELSE newBook.id

\* { id, ...newBook }, line 107: the properties of newBook are spread after id,
\* so an own id property of newBook replaces the id written first.
MakeBook(id, newBook) ==
    [g \in {"id"} \cup DOMAIN newBook |->
        IF g \in DOMAIN newBook THEN newBook[g] ELSE id]

CreateResult(bs, body, fresh) ==
    IF body.kind = "none"
    THEN ThrowHttp(bs, 400, "Bad Request: No data provided")
    ELSE IF body.kind = "null"
    THEN ThrowOther(bs)         \* newBook.title on null is a TypeError
    ELSE LET newBook == ParsedObject(body) IN
         IF MissingRequired(newBook)
         THEN ThrowHttp(bs, 400, "Bad Request: Missing required fields")
         ELSE LET id == CreateKey(newBook, fresh)
                  book == MakeBook(id, newBook)
              IN Reply(MapSet(bs, id, book), 201, BookBody(book))

----------------------------------------------------------------------------
(* PUT /books/:id, lines 114-140 *)

\* Line 122 calls context.request.body(). In oak v17.1.2 (line 20) the body of
\* a request is a property holding a Body object, the one line 99 reads and
\* line 100 calls .json() on; it is not a function, so the call throws a
\* TypeError.
RequestBodyIsCallable == FALSE

\* await body.value, line 123, and the test of line 125.
IsObjectValue(body) == body.kind = "object"

\* { ...books.get(id), ...book }, line 137.
MergeBook(old, book) ==
    [g \in DOMAIN old \cup DOMAIN book |->
        IF g \in DOMAIN book THEN book[g] ELSE old[g]]

UpdateResult(bs, id, body) ==
    IF id = ""
    THEN Reply(bs, 400, JsonBody([error |-> "ID is required"]))
    ELSE IF ~RequestBodyIsCallable
    THEN ThrowOther(bs)
    ELSE IF ~IsObjectValue(body)
    THEN Reply(bs, 400, JsonBody([error |-> "Invalid book data"]))
    ELSE IF ~MapHas(bs, id)
    THEN Reply(bs, 404, JsonBody([error |-> "Book not found"]))
    ELSE Reply(MapSet(bs, id, MergeBook(MapGet(bs, id), body.json)), 200,
               JsonBody([message |-> "Book updated successfully"]))

----------------------------------------------------------------------------
(* DELETE /books/:id, lines 143-152 *)

DeleteResult(bs, bookId) ==
    IF bookId # "" /\ MapHas(bs, bookId)
    THEN Reply(MapDelete(bs, bookId), 204, EmptyBody)
    ELSE notFound(bs)

----------------------------------------------------------------------------
(* Requests *)

\* The ids a client can put in a request: the ones it makes up and the
\* generated ones a response has shown it.
KnownIds == ClientIds \cup revealed

\* The ids a request path can carry; "" is the absent parameter.
PathIds == KnownIds \cup {""}

\* Bodies sent to POST /books: complete payloads with and without an id, with an
\* empty id and with a negative year; payloads with one required field absent;
\* payloads with one required field present but falsy; and the three bodies
\* that are no JSON object.
CreateBodies ==
    {NoBody, NullBody, ScalarBody}
    \cup {ObjectBody(BasePayload("A")), ObjectBody(With(BasePayload("A"), "id", ""))}
    \cup {ObjectBody(With(BasePayload(t), "id", "1")) : t \in {"A", "B"}}
    \cup {ObjectBody(With(BasePayload("A"), "id", i)) : i \in KnownIds}
    \cup {ObjectBody(With(FileBook("2"), "year", -1))}
    \cup {ObjectBody(Without(FileBook("1"), f)) : f \in RequiredFields}
    \cup {ObjectBody(With(FileBook("1"), "year", 0)),
          ObjectBody(With(FileBook("1"), "title", "")),
          ObjectBody(With(FileBook("1"), "summary", ""))}

\* Bodies sent to PUT /books/:id.
UpdateBodies == {NoBody, ScalarBody, ObjectBody([year |-> 2020])}

PinnedOf(x) == IF x \in DOMAIN pinned THEN pinned[x] ELSE <<>>

\* What every request does to the record of the last two exchanges.
Handled(op, id, body, r) ==
    /\ phase = "listening"
    /\ nOps < MaxOps
    /\ books' = r.books
    /\ req' = body
    /\ resp' = [op |-> op, id |-> id, status |-> r.status, body |-> r.body]
    /\ prev' = [op |-> resp.op, id |-> resp.id, status |-> resp.status]
    /\ pre' = books
    /\ nOps' = nOps + 1
    /\ UNCHANGED <<phase, file, nLoaded>>

----------------------------------------------------------------------------
(* The state machine *)

Init ==
    /\ phase = "loading"
    /\ file \in FileContents
    /\ books = <<>>
    /\ generated = 0
    /\ revealed = {}
    /\ req = NoBody
    /\ resp = [op |-> "none", id |-> "", status |-> 0, body |-> EmptyBody]
    /\ prev = [op |-> "none", id |-> "", status |-> 0]
    /\ pre = <<>>
    /\ nOps = 0
    /\ nLoaded = 0
    /\ nCreated = 0
    /\ nDeleted = 0
    /\ createdIds = {}
    /\ dupCreate = FALSE
    /\ pinned = [x \in {} |-> <<>>]

\* await loadBooksData(), line 67, then app.listen, line 210.
loadBooksData ==
    /\ phase = "loading"
    /\ books' = LoadedBooks(books, file)
    /\ nLoaded' = Len(books')
    /\ phase' = "listening"
    /\ UNCHANGED <<file, generated, revealed, req, resp, prev, pre, nOps,
                   nCreated, nDeleted, createdIds, dupCreate, pinned>>

GetBooks ==
    /\ Handled("List", "", NoBody, GetBooksResult(books))
    /\ UNCHANGED <<generated, revealed, nCreated, nDeleted, createdIds,
                   dupCreate, pinned>>

GetBook(bookId) ==
    /\ Handled("Get", bookId, NoBody, GetBookResult(books, bookId))
    /\ UNCHANGED <<generated, revealed, nCreated, nDeleted, createdIds,
                   dupCreate, pinned>>

PostBooks(body) ==
    LET fresh == Uuid(generated + 1)
        r == CreateResult(books, body, fresh)
        ok == r.status = 201
        usedFresh == ok /\ ~Truthy(body.json, "id")
    IN /\ Handled("Create", "", body, r)
       /\ generated' = IF usedFresh THEN generated + 1 ELSE generated
       /\ revealed' = IF usedFresh /\ r.body.book.id = fresh
                      THEN revealed \cup {fresh} ELSE revealed
       /\ nCreated' = IF ok THEN nCreated + 1 ELSE nCreated
       /\ createdIds' = IF ok THEN createdIds \cup {r.body.book.id} ELSE createdIds
       /\ dupCreate' = (dupCreate \/ (ok /\ r.body.book.id \in createdIds))
       /\ pinned' = IF ok /\ Truthy(body.json, "id")
                    THEN With(pinned, body.json.id,
                              Append(PinnedOf(body.json.id), r.body.book))
                    ELSE pinned
       /\ UNCHANGED nDeleted

PutBook(id, body) ==
    /\ Handled("Update", id, body, UpdateResult(books, id, body))
    /\ pinned' = IF id \in DOMAIN pinned THEN With(pinned, id, <<>>) ELSE pinned
    /\ UNCHANGED <<generated, revealed, nCreated, nDeleted, createdIds, dupCreate>>

DeleteBook(bookId) ==
    LET r == DeleteResult(books, bookId) IN
    /\ Handled("Delete", bookId, NoBody, r)
    /\ nDeleted' = IF r.status = 204 THEN nDeleted + 1 ELSE nDeleted
    /\ pinned' = IF bookId \in DOMAIN pinned THEN With(pinned, bookId, <<>>) ELSE pinned
    /\ UNCHANGED <<generated, revealed, nCreated, createdIds, dupCreate>>

Next ==
    \/ loadBooksData
    \/ GetBooks
    \/ \E bookId \in PathIds : GetBook(bookId)
    \/ \E body \in CreateBodies : PostBooks(body)
    \/ \E id \in PathIds, body \in UpdateBodies : PutBook(id, body)
    \/ \E bookId \in PathIds : DeleteBook(bookId)

Spec == Init /\ [][Next]_vars

----------------------------------------------------------------------------
(* Properties *)

\* The keys of a Map.
Keys(bs) == {bs[i].k : i \in 1..Len(bs)}

\* A Book payload as the data model describes it: the five required fields are
\* present, title, author and genre are non-empty, year is any integer and
\* summary any text; an id may or may not be supplied.
ValidPayload(o) ==
    /\ RequiredFields \subseteq DOMAIN o
    /\ o.title # "" /\ o.author # "" /\ o.genre # ""

\* C1: a Create with a valid Book payload is answered 201 with a Book whose
\* title, author, genre, year and summary are the payload's and whose id is
\* non-empty (the payload's id if it has one, an id not in the store before
\* otherwise), and the store then holds the returned Book under that id.
C1_CreateValidPayload ==
    (resp.op = "Create" /\ req.kind = "object" /\ ValidPayload(req.json)) =>
        /\ resp.status = 201
        /\ resp.body.kind = "book"
        /\ \A f \in RequiredFields : resp.body.book[f] = req.json[f]
        /\ resp.body.book.id # ""
        /\ "id" \in DOMAIN req.json => resp.body.book.id = req.json.id
        /\ "id" \notin DOMAIN req.json => resp.body.book.id \notin Keys(pre)
        /\ resp.body.book.id \in Keys(books)
        /\ MapGet(books, resp.body.book.id) = resp.body.book

C3_UpdateMerges ==
    (resp.op = "Update" /\ resp.id \in Keys(pre) /\ req.kind = "object") =>
        /\ resp.status = 200
        /\ resp.body = JsonBody([message |-> "Book updated successfully"])
        /\ Keys(books) = Keys(pre)
        /\ \A f \in DOMAIN req.json : MapGet(books, resp.id)[f] = req.json[f]
        /\ \A f \in DOMAIN MapGet(pre, resp.id) \ DOMAIN req.json :
               MapGet(books, resp.id)[f] = MapGet(pre, resp.id)[f]
        /\ \A k \in Keys(pre) \ {resp.id} : MapGet(books, k) = MapGet(pre, k)

\* C4: a Delete of an id that is a key of the store is answered 204 and removes
\* that entry and no other; a Delete of any other id is answered 404 and
\* changes nothing; so a second Delete of the same id right after a Delete
\* answered 204 is answered 404 and leaves the store as the first left it.
C4_Delete ==
    /\ resp.op = "Delete" =>
           IF resp.id \in Keys(pre)
           THEN /\ resp.status = 204
                /\ Keys(books) = Keys(pre) \ {resp.id}
                /\ Len(books) = Len(pre) - 1
                /\ \A k \in Keys(books) : MapGet(books, k) = MapGet(pre, k)
           ELSE resp.status = 404 /\ books = pre
    /\ (/\ prev.op = "Delete" /\ prev.status = 204
        /\ resp.op = "Delete" /\ resp.id = prev.id)
       => (resp.status = 404 /\ books = pre)

C4_Witness ==
    /\ prev.op = "Delete" /\ prev.status = 204
    /\ resp.op = "Delete" /\ resp.id = prev.id /\ resp.status = 404
    /\ Len(books) > 0

\* C5 as stated: every Book created under a supplied id X since the last Update
\* or Delete request on X is what the store holds under X and what a Get of X
\* returns with 200.
C5_RoundTripAsStated ==
    \A x \in DOMAIN pinned : \A i \in 1..Len(pinned[x]) :
        /\ x \in Keys(books)
        /\ MapGet(books, x) = pinned[x][i]
        /\ (resp.op = "Get" /\ resp.id = x) =>
               (resp.status = 200 /\ resp.body = BookBody(pinned[x][i]))

\* C5: the Book created last under a supplied id X, with no Update or Delete
\* request on X since, is what the store holds under X and what a Get of X
\* returns with 200, whatever was done to other ids in between.
C5_RoundTrip ==
    \A x \in DOMAIN pinned :
        pinned[x] # <<>> =>
            /\ x \in Keys(books)
            /\ MapGet(books, x) = pinned[x][Len(pinned[x])]
            /\ (resp.op = "Get" /\ resp.id = x) =>
                   (resp.status = 200
                    /\ resp.body = BookBody(pinned[x][Len(pinned[x])]))

C5_Witness ==
    /\ nOps = 3 /\ nCreated = 2
    /\ prev.op = "Create" /\ prev.status = 201
    /\ resp.op = "Get" /\ resp.status = 200
    /\ Len(PinnedOf(resp.id)) = 1
    /\ books[Len(books)].k # resp.id

\* C6: a Get of X is answered 200 with the stored record exactly when X is a
\* key of the store, and 404 otherwise; a List is always answered 200; neither
\* changes the store.
C6_GetAndList ==
    /\ resp.op = "Get" =>
           /\ books = pre
           /\ (\E i \in 1..Len(pre) : pre[i].k = resp.id) <=> resp.status = 200
           /\ resp.status \in {200, 404}
           /\ resp.status = 200 =>
                  \E i \in 1..Len(pre) :
                      pre[i].k = resp.id /\ resp.body = BookBody(pre[i].v)
    /\ resp.op = "List" => (resp.status = 200 /\ books = pre)

C6_Witness ==
    /\ prev.op = "Delete" /\ prev.status = 204
    /\ resp.op = "Get" /\ resp.id = prev.id /\ resp.status = 404
    /\ Len(books) > 0

\* C7: from an empty store, as long as no two successful Creates returned the
\* same id, the store holds, and a List returns, as many records as there were
\* successful Creates minus successful Deletes.
C7_ListCount ==
    (nLoaded = 0 /\ ~dupCreate) =>
        /\ Len(books) = nCreated - nDeleted
        /\ resp.op = "List" => Len(resp.body.list) = nCreated - nDeleted

C7_Witness ==
    /\ nLoaded = 0 /\ ~dupCreate
    /\ nCreated >= 1 /\ nCreated + nDeleted >= 2
    /\ resp.op = "List"

\* C8: an Update never changes the set of ids in the store, and a rejected one
\* changes nothing: 400 for an absent id, 400 for an absent or non-object body,
\* 404 for an id that is not in the store.
C8_UpdateRejects ==
    resp.op = "Update" =>
        /\ Keys(books) = Keys(pre)
        /\ resp.id = "" => (resp.status = 400 /\ books = pre)
        /\ (resp.id # "" /\ req.kind # "object") =>
               (resp.status = 400 /\ books = pre)
        /\ (resp.id # "" /\ req.kind = "object" /\ resp.id \notin Keys(pre)) =>
               (resp.status = 404 /\ books = pre)

\* C9: every record in the store is held under the key that is its own id.
C9_KeyIsId ==
    \A i \in 1..Len(books) :
        "id" \in DOMAIN books[i].v /\ books[i].v.id = books[i].k

\* True when the data file is a JSON array of Books with distinct ids.
FileIsBookList ==
    /\ file.kind = "array"
    /\ \A i \in 1..Len(file.entries) : file.entries[i] # JsonNull
    /\ \A i, j \in 1..Len(file.entries) :
           file.entries[i].id = file.entries[j].id => i = j

\* C10: whatever the file holds, startup can complete and leaves the server
\* listening; with an unreadable or malformed file the store starts empty and
\* the first List is answered 200 with no records; with a file that is an array L of Books with distinct ids
\* the store starts as the records of L under their own ids, the first List
\* returns L, a first Get of an id of L returns that entry, and a Get right
\* after a first Delete of an id of L is answered 404.
C10_Startup ==
    /\ phase = "loading" => (nOps = 0 /\ books = <<>> /\ ENABLED loadBooksData)
    /\ (phase = "listening" /\ file.kind # "array") =>
           /\ nLoaded = 0
           /\ nOps = 0 => books = <<>>
           /\ (nOps = 1 /\ resp.op = "List") =>
                  (resp.status = 200 /\ resp.body = ListBody(<<>>))
    /\ (phase = "listening" /\ FileIsBookList) =>
           /\ nLoaded = Len(file.entries)
           /\ nOps = 0 =>
                  /\ MapValues(books) = file.entries
                  /\ \A i \in 1..Len(books) : books[i].k = file.entries[i].id
           /\ (nOps = 1 /\ resp.op = "List") =>
                  (resp.status = 200 /\ resp.body = ListBody(file.entries))
           /\ \A i \in 1..Len(file.entries) :
                  /\ (nOps = 1 /\ resp.op = "Get"
                      /\ resp.id = file.entries[i].id) =>
                         (resp.status = 200
                          /\ resp.body = BookBody(file.entries[i]))
                  /\ (nOps = 2 /\ prev.op = "Delete" /\ resp.op = "Get"
                      /\ prev.id = file.entries[i].id /\ resp.id = prev.id) =>
                         (prev.status = 204 /\ resp.status = 404)

C10_Witness ==
    /\ FileIsBookList /\ Len(file.entries) = 2
    /\ nOps = 2
    /\ prev.op = "Delete" /\ prev.status = 204
    /\ resp.op = "Get" /\ resp.id = prev.id /\ resp.status = 404

====
